---- MODULE Spec2Model ----
(***************************************************************************)
(* A model of src/RssParser.ts: the regular-expression based RSS parser    *)
(* (getTextBetweenTags, getAllItems, extractImages, extractMediaThumbnail, *)
(* cleanHtmlContent, parseRssXml) and the fetch wrapper (fetchAndParseRss, *)
(* fetchRssData).                                                          *)
(*                                                                         *)
(* A JavaScript string is a sequence of one-character strings.  The four   *)
(* non-ASCII characters the code writes are named: "BULLET" (U+2022),      *)
(* "MDASH" (U+2014), "NDASH" (U+2013) and "HELLIP" (U+2026).               *)
(***************************************************************************)
EXTENDS Integers, Sequences, FiniteSets, TLC

VARIABLES
  pc,        \* where the call in progress stands
  input,     \* the string given to the call (for the fetch: the body served)
  parts,     \* how the input string was put together
  output,    \* the value returned, Undefined before the return
  response,  \* the Response fetch resolved with
  inner,     \* the promise of fetchAndParseRss
  outer,     \* the promise of fetchRssData
  calls      \* how often response.text, parseRssXml and console.error ran

vars == <<pc, input, parts, output, response, inner, outer, calls>>

(***************************************************************************)
(* Characters and character classes of the JavaScript regular expressions. *)
(***************************************************************************)
LowerOf ==
  [A |-> "a", B |-> "b", C |-> "c", D |-> "d", E |-> "e", F |-> "f", G |-> "g",
   H |-> "h", I |-> "i", J |-> "j", K |-> "k", L |-> "l", M |-> "m", N |-> "n",
   O |-> "o", P |-> "p", Q |-> "q", R |-> "r", S |-> "s", T |-> "t", U |-> "u",
   V |-> "v", W |-> "w", X |-> "x", Y |-> "y", Z |-> "z"]

UpperCase == DOMAIN LowerOf

\* Case folding of the `i' flag.
Lower(c) == IF c \in UpperCase THEN LowerOf[c] ELSE c

\* \d
Digits == {"0", "1", "2", "3", "4", "5", "6", "7", "8", "9"}

\* [a-zA-Z]
Letters == UpperCase \cup {LowerOf[c] : c \in UpperCase}

\* \s, and the characters String.prototype.trim removes
WhiteSpace == {" ", "\t", "\n", "\r"}

\* The characters `.' does not match without the `s' flag
LineTerminators == {"\n", "\r"}

DigitValue == [c \in Digits |->
  CASE c = "0" -> 0 [] c = "1" -> 1 [] c = "2" -> 2 [] c = "3" -> 3 [] c = "4" -> 4
    [] c = "5" -> 5 [] c = "6" -> 6 [] c = "7" -> 7 [] c = "8" -> 8 [] c = "9" -> 9]

(***************************************************************************)
(* Regular expressions.  A pattern is a sequence of atoms:                 *)
(*   Lit(cs)        the characters cs                                      *)
(*   Rep(S,lo,hi)   lo..hi characters of the set S, greedy  (hi = -1: any) *)
(*   RepNot(S,lo,hi) the same for characters outside S                     *)
(*   Lazy(S)        [^S]*?  (.*? is Lazy of the characters `.' excludes)   *)
(*   Alt(ps)        ( p1 | p2 | ... ), the alternatives tried in order     *)
(*   Open, Close    the parentheses of capture group 1                     *)
(*   Ref            \1                                                     *)
(*   Bol            ^ without the `m' flag                                 *)
(* A regular expression is a pattern with its `i' flag.                    *)
(***************************************************************************)
Lit(cs) == [t |-> "lit", v |-> cs]
Rep(S, lo, hi) == [t |-> "rep", neg |-> FALSE, v |-> S, lo |-> lo, hi |-> hi, lazy |-> FALSE]
RepNot(S, lo, hi) == [t |-> "rep", neg |-> TRUE, v |-> S, lo |-> lo, hi |-> hi, lazy |-> FALSE]
Lazy(S) == [t |-> "rep", neg |-> TRUE, v |-> S, lo |-> 0, hi |-> -1, lazy |-> TRUE]
Alt(ps) == [t |-> "alt", v |-> ps]
Open == [t |-> "open"]
Close == [t |-> "close"]
Ref == [t |-> "ref"]
Bol == [t |-> "bol"]

RegExp(p, i) == [p |-> p, i |-> i]

NoMatch == [ok |-> FALSE, e |-> 0, gs |-> 0, ge |-> 0]

\* The characters cs stand at position i of s.
LitAt(s, i, cs, ci) ==
  /\ i + Len(cs) - 1 <= Len(s)
  /\ \A k \in 1..Len(cs) :
       IF ci THEN Lower(s[i + k - 1]) = Lower(cs[k]) ELSE s[i + k - 1] = cs[k]

InClass(a, c) == IF a.neg THEN c \notin a.v ELSE c \in a.v

\* The first position in lo..hi whose character the repetition a cannot take,
\* hi + 1 when there is none.  (Here and below a range is searched in order,
\* half by half, which keeps the depth of TLC's recursion logarithmic.)
RECURSIVE RunEnd(_, _, _, _)
RunEnd(a, s, lo, hi) ==
  IF lo > hi THEN hi + 1
  ELSE IF lo = hi THEN (IF InClass(a, s[lo]) THEN hi + 1 ELSE lo)
  ELSE LET mid == (lo + hi) \div 2
           l == RunEnd(a, s, lo, mid)
       IN IF l <= mid THEN l ELSE RunEnd(a, s, mid + 1, hi)

\* How many characters from position i on the repetition a can take at most.
RunLen(a, s, i) ==
  LET hi == IF a.hi >= 0 /\ i + a.hi - 1 < Len(s) THEN i + a.hi - 1 ELSE Len(s) IN
    IF a.neg /\ a.v = {} THEN hi + 1 - i ELSE RunEnd(a, s, i, hi) - i

(***************************************************************************)
(* The backtracking matcher: Match(p, j, s, i, gs, ge, ci) matches the     *)
(* atoms p[j..] of a pattern against s from position i, group 1 being      *)
(* s[gs..ge-1] so far, and returns the first match in the engine's order   *)
(* of preference (its end e is the position after the last character).     *)
(***************************************************************************)
RECURSIVE Match(_, _, _, _, _, _, _)
RECURSIVE TryRep(_, _, _, _, _, _, _, _, _, _)
RECURSIVE TryStops(_, _, _, _, _, _, _, _)
RECURSIVE TryAlt(_, _, _, _, _, _, _, _)

Match(p, j, s, i, gs, ge, ci) ==
  IF j > Len(p) THEN [ok |-> TRUE, e |-> i, gs |-> gs, ge |-> ge]
  ELSE LET a == p[j] IN
    CASE a.t = "lit" ->
           IF LitAt(s, i, a.v, ci) THEN Match(p, j + 1, s, i + Len(a.v), gs, ge, ci)
           ELSE NoMatch
      [] a.t = "rep" ->
           LET n == RunLen(a, s, i) IN
             IF n < a.lo THEN NoMatch
             ELSE TryRep(p, j, s, i, gs, ge, ci, a.lo, n, a.lazy)
      [] a.t = "alt" -> TryAlt(p, j, s, i, gs, ge, ci, 1)
      [] a.t = "open" -> Match(p, j + 1, s, i, i, i, ci)
      [] a.t = "close" -> Match(p, j + 1, s, i, gs, i, ci)
      [] a.t = "ref" ->
           LET g == SubSeq(s, gs, ge - 1) IN
             IF LitAt(s, i, g, ci) THEN Match(p, j + 1, s, i + Len(g), gs, ge, ci)
             ELSE NoMatch
      [] a.t = "bol" -> IF i = 1 THEN Match(p, j + 1, s, i, gs, ge, ci) ELSE NoMatch

\* The literal a match of p[j..] must begin with, <<>> when there is none:
\* the parentheses of the group take no character.
RECURSIVE NextLit(_, _)
NextLit(p, j) ==
  IF j > Len(p) THEN <<>>
  ELSE IF p[j].t = "lit" THEN p[j].v
  ELSE IF p[j].t \in {"open", "close"} THEN NextLit(p, j + 1)
  ELSE <<>>

\* The smallest element of a non-empty set of numbers.
Min(S) == CHOOSE k \in S : \A j \in S : k <= j

\* The case folding of the `i' flag, when it is set.
Fold(c, ci) == IF ci THEN Lower(c) ELSE c

\* The repetition p[j] takes k characters, for the first k of lo..hi after
\* which the rest of p matches: the smallest k first when lazy, the largest
\* first when greedy.  Before a literal, a lazy repetition can only stop where
\* the literal stands.
TryRep(p, j, s, i, gs, ge, ci, lo, hi, lazy) ==
  IF lazy /\ NextLit(p, j + 1) # <<>> THEN
    LET lit == NextLit(p, j + 1)
        c == Fold(lit[1], ci)
        stops == {k \in lo..hi : /\ i + k <= Len(s)
                                  /\ Fold(s[i + k], ci) = c
                                  /\ LitAt(s, i + k, lit, ci)}
    IN TryStops(p, j, s, i, gs, ge, ci, stops)
  ELSE IF lo = hi THEN Match(p, j + 1, s, i + lo, gs, ge, ci)
  ELSE LET mid == (lo + hi) \div 2
           first == IF lazy THEN TryRep(p, j, s, i, gs, ge, ci, lo, mid, lazy)
                    ELSE TryRep(p, j, s, i, gs, ge, ci, mid + 1, hi, lazy)
       IN IF first.ok THEN first
          ELSE IF lazy THEN TryRep(p, j, s, i, gs, ge, ci, mid + 1, hi, lazy)
          ELSE TryRep(p, j, s, i, gs, ge, ci, lo, mid, lazy)

\* The repetition p[j] takes k characters, for the smallest k of the set ks
\* after which the rest of p matches.
TryStops(p, j, s, i, gs, ge, ci, ks) ==
  IF ks = {} THEN NoMatch
  ELSE LET k == Min(ks)
           r == Match(p, j + 1, s, i + k, gs, ge, ci)
       IN IF r.ok THEN r ELSE TryStops(p, j, s, i, gs, ge, ci, ks \ {k})

\* The alternatives of p[j] from the n-th on, each followed by the rest of p.
TryAlt(p, j, s, i, gs, ge, ci, n) ==
  IF n > Len(p[j].v) THEN NoMatch
  ELSE LET r == Match(p[j].v[n] \o SubSeq(p, j + 1, Len(p)), 1, s, i, gs, ge, ci) IN
    IF r.ok THEN r ELSE TryAlt(p, j, s, i, gs, ge, ci, n + 1)

\* A match of re that starts exactly at position i.
MatchAt(re, s, i) == Match(re.p, 1, s, i, 0, 0, re.i)

NoExec == [ok |-> FALSE, b |-> 0, e |-> 0, gs |-> 0, ge |-> 0]

\* The characters a match of the pattern p can begin with (folded under the
\* `i' flag), when its first atom tells: any |-> TRUE when it does not.
RECURSIVE FirstChars(_, _)
RECURSIVE FirstCharsOfAlt(_, _, _)
FirstChars(p, ci) ==
  IF p = <<>> THEN [any |-> TRUE, cs |-> {}]
  ELSE CASE p[1].t = "lit" /\ p[1].v # <<>> -> [any |-> FALSE, cs |-> {Fold(p[1].v[1], ci)}]
         [] p[1].t = "alt" -> FirstCharsOfAlt(p[1].v, 1, ci)
         [] OTHER -> [any |-> TRUE, cs |-> {}]

FirstCharsOfAlt(ps, n, ci) ==
  IF n > Len(ps) THEN [any |-> FALSE, cs |-> {}]
  ELSE LET f == FirstChars(ps[n], ci)
           g == FirstCharsOfAlt(ps, n + 1, ci)
       IN [any |-> f.any \/ g.any, cs |-> f.cs \cup g.cs]

\* The match r found at position b, or else the match that begins at a later
\* position of the set ks.
RECURSIVE ExecAmong(_, _, _)
ExecOr(re, s, ks, b, r) ==
  IF r.ok THEN [ok |-> TRUE, b |-> b, e |-> r.e, gs |-> r.gs, ge |-> r.ge]
  ELSE ExecAmong(re, s, ks \ {b})

\* The match of re that begins at the smallest possible position of the set ks.
ExecAmong(re, s, ks) ==
  IF ks = {} THEN NoExec ELSE ExecOr(re, s, ks, Min(ks), MatchAt(re, s, Min(ks)))

\* RegExp.prototype.exec from position i (lastIndex) on: the leftmost match,
\* with the position b where it begins.  Only the positions where a match can
\* begin are tried.
ExecFrom(re, s, i) ==
  LET f == FirstChars(re.p, re.i) IN
    ExecAmong(re, s, IF f.any THEN i..(Len(s) + 1)
                     ELSE {k \in i..Len(s) :
                             /\ Fold(s[k], re.i) \in f.cs
                             /\ re.p[1].t = "lit" => LitAt(s, k, re.p[1].v, re.i)})

\* String.prototype.match with a regular expression without the `g' flag.
Exec(re, s) == ExecFrom(re, s, 1)

\* Capture group 1 of a match.
Group1(s, m) == SubSeq(s, m.gs, m.ge - 1)

\* String.prototype.replace with a `g' regular expression and a replacement
\* string without `$': every match, left to right, none overlapping; after an
\* empty match the search goes on one character further.
RECURSIVE ReplaceFrom(_, _, _, _)
ReplaceMatch(re, s, by, i, m) ==
  IF ~m.ok THEN SubSeq(s, i, Len(s))
  ELSE IF m.e > m.b THEN SubSeq(s, i, m.b - 1) \o by \o ReplaceFrom(re, s, by, m.e)
  ELSE SubSeq(s, i, m.b - 1) \o by \o SubSeq(s, m.b, m.b) \o ReplaceFrom(re, s, by, m.b + 1)

ReplaceFrom(re, s, by, i) == ReplaceMatch(re, s, by, i, ExecFrom(re, s, i))

ReplaceAll(re, s, by) == ReplaceFrom(re, s, by, 1)

\* String.prototype.trim
RECURSIVE TrimStart(_)
TrimStart(s) ==
  IF s # <<>> /\ Head(s) \in WhiteSpace THEN TrimStart(Tail(s)) ELSE s

RECURSIVE TrimEnd(_)
TrimEnd(s) ==
  IF s # <<>> /\ s[Len(s)] \in WhiteSpace THEN TrimEnd(SubSeq(s, 1, Len(s) - 1)) ELSE s

Trim(s) == TrimEnd(TrimStart(s))

\* String.prototype.includes
Includes(s, cs) == \E i \in 1..(Len(s) + 1) : LitAt(s, i, cs, FALSE)

\* parseInt of a string of decimal digits
RECURSIVE ParseInt(_)
ParseInt(s) ==
  IF s = <<>> THEN 0 ELSE 10 * ParseInt(SubSeq(s, 1, Len(s) - 1)) + DigitValue[s[Len(s)]]

\* Applies the replacements steps[k..], each to the result of the one before
\* (TLC computes r, for its length, before it goes on to the next step).
RECURSIVE Chain(_, _, _)
ChainOn(steps, k, r) == IF Len(r) >= 0 THEN Chain(steps, k + 1, r) ELSE r

Chain(steps, k, s) ==
  IF k > Len(steps) THEN s
  ELSE ChainOn(steps, k, ReplaceAll(steps[k][1], s, steps[k][2]))

\* <name[^>]*>
OpenTag(name) == <<Lit(<<"<">> \o name), RepNot({">"}, 0, -1), Lit(<<">">>)>>

\* </name>
CloseTag(name) == <<Lit(<<"<", "/">> \o name \o <<">">>)>>

\* .*? with and without the `s' flag
DotAllLazy == Lazy({})
DotLazy == Lazy(LineTerminators)

(***************************************************************************)
(* cleanHtmlContent: the element names its regular expressions mention.    *)
(***************************************************************************)
N_script == <<"s", "c", "r", "i", "p", "t">>
N_style == <<"s", "t", "y", "l", "e">>
N_img == <<"i", "m", "g">>
N_video == <<"v", "i", "d", "e", "o">>
N_audio == <<"a", "u", "d", "i", "o">>
N_iframe == <<"i", "f", "r", "a", "m", "e">>
N_embed == <<"e", "m", "b", "e", "d">>
N_object == <<"o", "b", "j", "e", "c", "t">>
N_div == <<"d", "i", "v">>
N_p == <<"p">>
N_br == <<"b", "r">>
N_article == <<"a", "r", "t", "i", "c", "l", "e">>
N_section == <<"s", "e", "c", "t", "i", "o", "n">>
N_header == <<"h", "e", "a", "d", "e", "r">>
N_footer == <<"f", "o", "o", "t", "e", "r">>
N_nav == <<"n", "a", "v">>
N_main == <<"m", "a", "i", "n">>
N_ul == <<"u", "l">>
N_ol == <<"o", "l">>
N_li == <<"l", "i">>
N_strong == <<"s", "t", "r", "o", "n", "g">>
N_b == <<"b">>
N_em == <<"e", "m">>
N_i == <<"i">>

\* [^>]*>
TagRest == <<RepNot({">"}, 0, -1), Lit(<<">">>)>>

\* Lines 106-113: script and style elements, comments, img tags, and the
\* media elements /<(video|audio|iframe|embed|object)[^>]*>.*?<\/\1>/gi.
RemoveElementsSteps ==
  <<
     <<RegExp(OpenTag(N_script) \o <<DotAllLazy>> \o CloseTag(N_script), TRUE), <<>> >>,
     <<RegExp(OpenTag(N_style) \o <<DotAllLazy>> \o CloseTag(N_style), TRUE), <<>> >>,
     <<RegExp(<<Lit(<<"<", "!", "-", "-">>), DotAllLazy, Lit(<<"-", "-", ">">>)>>, FALSE), <<>> >>,
     <<RegExp(OpenTag(N_img), TRUE), <<>> >>,
     <<RegExp(<<Lit(<<"<">>), Open,
                Alt(<< <<Lit(N_video)>>, <<Lit(N_audio)>>, <<Lit(N_iframe)>>,
                       <<Lit(N_embed)>>, <<Lit(N_object)>> >>),
                Close>> \o TagRest \o <<DotLazy, Lit(<<"<", "/">>), Ref, Lit(<<">">>)>>, TRUE),
       <<>> >>
  >>

RemoveElements(s) == Chain(RemoveElementsSteps, 1, s)

\* Lines 115-121: block elements and lists become line breaks and bullets.
BlockToTextSteps ==
  <<
     <<RegExp(<<Lit(<<"<">>), Rep({"/"}, 0, 1),
                Alt(<< <<Lit(N_div)>>, <<Lit(N_p)>>, <<Lit(N_br)>>,
                       <<Lit(<<"h">>), Rep({"1", "2", "3", "4", "5", "6"}, 1, 1)>>,
                       <<Lit(N_article)>>, <<Lit(N_section)>>, <<Lit(N_header)>>,
                       <<Lit(N_footer)>>, <<Lit(N_nav)>>, <<Lit(N_main)>> >>)>> \o TagRest, TRUE),
       <<"\n">> >>,
     <<RegExp(<<Lit(<<"<">>), Rep({"/"}, 0, 1),
                Alt(<< <<Lit(N_ul)>>, <<Lit(N_ol)>> >>)>> \o TagRest, TRUE),
       <<"\n">> >>,
     <<RegExp(OpenTag(N_li), TRUE), <<"\n", "BULLET", " ">> >>,
     <<RegExp(CloseTag(N_li), TRUE), <<>> >>
  >>

BlockToText(s) == Chain(BlockToTextSteps, 1, s)

\* Lines 123-128: formatting tags, then every remaining tag.
StripTagsSteps ==
  <<
     <<RegExp(<<Alt(<<OpenTag(N_strong), OpenTag(N_b)>>)>>, TRUE), <<>> >>,
     <<RegExp(<<Alt(<<CloseTag(N_strong), CloseTag(N_b)>>)>>, TRUE), <<>> >>,
     <<RegExp(<<Alt(<<OpenTag(N_em), OpenTag(N_i)>>)>>, TRUE), <<>> >>,
     <<RegExp(<<Alt(<<CloseTag(N_em), CloseTag(N_i)>>)>>, TRUE), <<>> >>,
     <<RegExp(<<Lit(<<"<">>)>> \o TagRest, FALSE), <<>> >>
  >>

\* The replacement of the first match only, as without the `g' flag.
ReplaceFirst(re, s, by) ==
  LET m == Exec(re, s) IN
    IF ~m.ok THEN s ELSE SubSeq(s, 1, m.b - 1) \o by \o SubSeq(s, m.e, Len(s))

\* The remaining tags removed without the `g' flag: the first one only.
StripTags_NotGlobal(s) ==
  ReplaceFirst(StripTagsSteps[5][1], Chain(SubSeq(StripTagsSteps, 1, 4), 1, s), <<>>)

StripTags(s) == Chain(StripTagsSteps, 1, s)

\* Lines 130-147: the entity table in the order of the code, then numeric
\* and named entities to a space.
DecodeEntitiesSteps ==
  <<
     <<RegExp(<<Lit(<<"&", "n", "b", "s", "p", ";">>)>>, FALSE), <<" ">>>>,
     <<RegExp(<<Lit(<<"&", "a", "m", "p", ";">>)>>, FALSE), <<"&">>>>,
     <<RegExp(<<Lit(<<"&", "l", "t", ";">>)>>, FALSE), <<"<">>>>,
     <<RegExp(<<Lit(<<"&", "g", "t", ";">>)>>, FALSE), <<">">>>>,
     <<RegExp(<<Lit(<<"&", "q", "u", "o", "t", ";">>)>>, FALSE), <<"\"">>>>,
     <<RegExp(<<Lit(<<"&", "#", "3", "9", ";">>)>>, FALSE), <<"'">>>>,
     <<RegExp(<<Lit(<<"&", "#", "x", "2", "7", ";">>)>>, FALSE), <<"'">>>>,
     <<RegExp(<<Lit(<<"&", "#", "x", "2", "F", ";">>)>>, FALSE), <<"/">>>>,
     <<RegExp(<<Lit(<<"&", "a", "p", "o", "s", ";">>)>>, FALSE), <<"'">>>>,
     <<RegExp(<<Lit(<<"&", "r", "s", "q", "u", "o", ";">>)>>, FALSE), <<"'">>>>,
     <<RegExp(<<Lit(<<"&", "l", "s", "q", "u", "o", ";">>)>>, FALSE), <<"'">>>>,
     <<RegExp(<<Lit(<<"&", "r", "d", "q", "u", "o", ";">>)>>, FALSE), <<"\"">>>>,
     <<RegExp(<<Lit(<<"&", "l", "d", "q", "u", "o", ";">>)>>, FALSE), <<"\"">>>>,
     <<RegExp(<<Lit(<<"&", "m", "d", "a", "s", "h", ";">>)>>, FALSE), <<"MDASH">>>>,
     <<RegExp(<<Lit(<<"&", "n", "d", "a", "s", "h", ";">>)>>, FALSE), <<"NDASH">>>>,
     <<RegExp(<<Lit(<<"&", "h", "e", "l", "l", "i", "p", ";">>)>>, FALSE), <<"HELLIP">>>>,
     <<RegExp(<<Lit(<<"&", "#">>), Rep(Digits, 1, -1), Lit(<<";">>)>>, FALSE), <<" ">> >>,
     <<RegExp(<<Lit(<<"&">>), Rep(Letters, 1, -1), Lit(<<";">>)>>, FALSE), <<" ">> >>
  >>

DecodeEntities(s) == Chain(DecodeEntitiesSteps, 1, s)

\* Lines 149-152: the whitespace clean-up before the final trim.
NormalizeWhitespaceSteps ==
  <<
     <<RegExp(<<Lit(<<"\n">>), Rep(WhiteSpace, 0, -1), Lit(<<"\n">>)>>, FALSE), <<"\n", "\n">> >>,
     <<RegExp(<<Rep({"\n"}, 3, -1)>>, FALSE), <<"\n", "\n">> >>,
     <<RegExp(<<Rep({" ", "\t"}, 1, -1)>>, FALSE), <<" ">> >>,
     <<RegExp(<<Bol, Rep(WhiteSpace, 0, -1), Lit(<<"\n">>)>>, FALSE), <<>> >>
  >>

NormalizeWhitespace(s) == Chain(NormalizeWhitespaceSteps, 1, s)

\* export function cleanHtmlContent(html: string): string
cleanHtmlContent(html) ==
  IF html = <<>> THEN <<>>
  ELSE Trim(NormalizeWhitespace(DecodeEntities(StripTags(BlockToText(RemoveElements(html))))))

\* function stripHtml(html: string): string
stripHtml(html) == cleanHtmlContent(html)

(***************************************************************************)
(* The extraction helpers.                                                 *)
(***************************************************************************)
N_title == <<"t", "i", "t", "l", "e">>
N_description == <<"d", "e", "s", "c", "r", "i", "p", "t", "i", "o", "n">>
N_link == <<"l", "i", "n", "k">>
N_item == <<"i", "t", "e", "m">>
N_content == <<"c", "o", "n", "t", "e", "n", "t">>
N_pubDate == <<"p", "u", "b", "D", "a", "t", "e">>
N_published == <<"p", "u", "b", "l", "i", "s", "h", "e", "d">>
N_guid == <<"g", "u", "i", "d">>
N_contentEncoded == <<"c", "o", "n", "t", "e", "n", "t", ":", "e", "n", "c", "o", "d", "e", "d">>

\* A value that may be undefined: Undefined, or Some(v).
Undefined == <<>>
Some(v) == <<v>>

\* The `||' of a string and a default: an empty string is falsy.
OrElse(s, d) == IF s # <<>> THEN s ELSE d

\* /<!\[CDATA\[(.*?)\]\]>/is
cdataRegex ==
  RegExp(<<Lit(<<"<", "!", "[", "C", "D", "A", "T", "A", "[">>), Open, DotAllLazy, Close, Lit(<<"]", "]", ">">>)>>, TRUE)

\* function getTextBetweenTags(xml: string, tag: string): string, with
\* new RegExp(`<${tag}[^>]*>(.*?)<\/${tag}>`, "is")
TagRegex(tag) == RegExp(OpenTag(tag) \o <<Open, DotAllLazy, Close>> \o CloseTag(tag), TRUE)

\* Lines 33-37: the payload of the CDATA section, when there is one.
CDataOr(content, cdataMatch) ==
  IF cdataMatch.ok THEN Trim(Group1(content, cdataMatch)) ELSE content

\* Lines 26-37: the content of the tag matched.
TagContent(xml, match) ==
  IF ~match.ok THEN <<>>
  ELSE CDataOr(Trim(Group1(xml, match)), Exec(cdataRegex, Trim(Group1(xml, match))))

getTextBetweenTags(xml, tag) == TagContent(xml, Exec(TagRegex(tag), xml))

\* /<item[^>]*>(.*?)<\/item>/gis
itemRegex == RegExp(OpenTag(N_item) \o <<Open, DotAllLazy, Close>> \o CloseTag(N_item), TRUE)

\* The exec loop of a `g' regular expression: group 1 of every match from
\* position i (lastIndex) on.
RECURSIVE Captures(_, _, _)
CapturesMatch(re, s, m) ==
  IF ~m.ok THEN <<>>
  ELSE <<Group1(s, m)>> \o Captures(re, s, IF m.e > m.b THEN m.e ELSE m.e + 1)

Captures(re, s, i) == CapturesMatch(re, s, ExecFrom(re, s, i))

\* function getAllItems(xml: string): string[]
getAllItems(xml) == Captures(itemRegex, xml, 1)

\* /<img[^>]+src=["']([^"']+)["'][^>]*>/gi
imgRegex ==
  RegExp(<<Lit(<<"<", "i", "m", "g">>), RepNot({">"}, 1, -1), Lit(<<"s", "r", "c", "=">>), Rep({"\"", "'"}, 1, 1), Open,
           RepNot({"\"", "'"}, 1, -1), Close, Rep({"\"", "'"}, 1, 1)>> \o TagRest, TRUE)

\* /(\d+)x(\d+)/ and /\d+x\d+/ : the same matches; group 1 is the width.
sizeRegex ==
  RegExp(<<Open, Rep(Digits, 1, -1), Close, Lit(<<"x">>), Rep(Digits, 1, -1)>>, FALSE)

\* The width an image URL must exceed to pass despite its WxH pattern.
MinWidth == 100

\* The condition with `>=' where the code has `>'.
AcceptImage_AtLeast(src) ==
  \/ /\ src # <<>>
     /\ ~Includes(src, <<"f", "e", "e", "d", "b", "u", "r", "n", "e", "r">>)
     /\ ~Includes(src, <<"p", "i", "x", "e", "l">>)
     /\ ~Includes(src, <<"1", "x", "1">>)
     /\ ~Includes(src, <<"t", "r", "a", "c", "k", "i", "n", "g">>)
     /\ ~Exec(sizeRegex, src).ok
  \/ LET m == Exec(sizeRegex, src) IN m.ok /\ ParseInt(Group1(src, m)) >= MinWidth

\* The condition of the `if' in extractImages (lines 71-79).
AcceptImage(src) ==
  \/ /\ src # <<>>
     /\ ~Includes(src, <<"f", "e", "e", "d", "b", "u", "r", "n", "e", "r">>)
     /\ ~Includes(src, <<"p", "i", "x", "e", "l">>)
     /\ ~Includes(src, <<"1", "x", "1">>)
     /\ ~Includes(src, <<"t", "r", "a", "c", "k", "i", "n", "g">>)
     /\ ~Exec(sizeRegex, src).ok
  \/ LET m == Exec(sizeRegex, src) IN m.ok /\ ParseInt(Group1(src, m)) > MinWidth

\* function extractImages(html: string): string[]
extractImages(html) ==
  IF html = <<>> THEN <<>> ELSE SelectSeq(Captures(imgRegex, html, 1), AcceptImage)

\* /<media:thumbnail[^>]+url=["']([^"']+)["'][^>]*>/i
mediaThumbnailRegex ==
  RegExp(<<Lit(<<"<", "m", "e", "d", "i", "a", ":", "t", "h", "u", "m", "b", "n", "a", "i", "l">>), RepNot({">"}, 1, -1), Lit(<<"u", "r", "l", "=">>), Rep({"\"", "'"}, 1, 1), Open,
           RepNot({"\"", "'"}, 1, -1), Close, Rep({"\"", "'"}, 1, 1)>> \o TagRest, TRUE)

\* function extractMediaThumbnail(itemXml: string): string | undefined
ThumbnailUrl(itemXml, match) ==
  IF match.ok THEN Some(Group1(itemXml, match)) ELSE Undefined

extractMediaThumbnail(itemXml) == ThumbnailUrl(itemXml, Exec(mediaThumbnailRegex, itemXml))

(***************************************************************************)
(* parseRssXml                                                             *)
(***************************************************************************)
UnknownFeed == <<"U", "n", "k", "n", "o", "w", "n", " ", "F", "e", "e", "d">>
NoTitle == <<"N", "o", " ", "T", "i", "t", "l", "e">>

\* Lines 194-196: the thumbnail, when there is one, before the content images.
CombineImages(mediaThumbnail, contentImages) ==
  IF mediaThumbnail # Undefined THEN <<mediaThumbnail[1]>> \o contentImages
  ELSE contentImages

\* Line 197: the first image, if there is one.
FeaturedImage(allImages) == IF Len(allImages) > 0 THEN Some(allImages[1]) ELSE Undefined

\* Line 213: the images, if there is one.
ImagesField_AlwaysPresent(allImages) == Some(allImages)

ImagesField(allImages) == IF Len(allImages) > 0 THEN Some(allImages) ELSE Undefined

\* Line 187: the richest content available.
RichContent(contentEncoded, content, rawDescription) ==
  OrElse(contentEncoded, OrElse(content, rawDescription))

\* Line 212: the guid, if there is one.
GuidField(guid) == IF guid # <<>> THEN Some(guid) ELSE Undefined

\* Lines 202-214: the item returned.
ItemRecord(itemXml, rawDescription, cleanContent, allImages) ==
  [title |-> OrElse(getTextBetweenTags(itemXml, N_title), NoTitle),
   description |-> cleanHtmlContent(rawDescription),
   cleanContent |-> cleanContent,
   link |-> OrElse(getTextBetweenTags(itemXml, N_link), <<>>),
   pubDate |-> OrElse(getTextBetweenTags(itemXml, N_pubDate),
                      OrElse(getTextBetweenTags(itemXml, N_published), <<>>)),
   guid |-> GuidField(getTextBetweenTags(itemXml, N_guid)),
   featuredImage |-> FeaturedImage(allImages),
   images |-> ImagesField(allImages)]

\* Lines 189-200: the images and the clean content, both of the rich content.
ItemOfRichContent(itemXml, rawDescription, richContent) ==
  ItemRecord(itemXml, rawDescription, cleanHtmlContent(richContent),
             CombineImages(extractMediaThumbnail(itemXml), extractImages(richContent)))

\* Line 187: the rich content chosen.
ItemOfContents(itemXml, rawDescription, contentEncoded, content) ==
  ItemOfRichContent(itemXml, rawDescription, RichContent(contentEncoded, content, rawDescription))

\* The callback of itemsXml.map (lines 179-215).
ParseItem(itemXml) ==
  ItemOfContents(itemXml,
                 OrElse(getTextBetweenTags(itemXml, N_description), <<>>),
                 OrElse(getTextBetweenTags(itemXml, N_contentEncoded), <<>>),
                 OrElse(getTextBetweenTags(itemXml, N_content), <<>>))

\* itemsXml.map (line 179)
MapItems(itemsXml) == [k \in 1..Len(itemsXml) |-> ParseItem(itemsXml[k])]

\* export function parseRssXml(xmlText: string): RssFeed.  No step of it
\* throws on a string, so the catch clause is never entered.
parseRssXml(xmlText) ==
  [title |-> OrElse(getTextBetweenTags(xmlText, N_title), UnknownFeed),
   description |-> stripHtml(OrElse(getTextBetweenTags(xmlText, N_description), <<>>)),
   link |-> OrElse(getTextBetweenTags(xmlText, N_link), <<>>),
   items |-> MapItems(getAllItems(xmlText))]

(***************************************************************************)
(* The inputs.  `parts' records how `input' was put together, so that a     *)
(* property can speak of what the text contains without going through the  *)
(* regular expressions that read it.                                       *)
(***************************************************************************)

\* Every sequence of at most n elements of S.
SeqsUpTo(S, n) == UNION {[1..k -> S] : k \in 0..n}

\* The concatenation of a sequence of strings.
RECURSIVE Concat(_)
Concat(ss) == IF ss = <<>> THEN <<>> ELSE Head(ss) \o Concat(Tail(ss))

\* <name>content</name>
Element(name, content) ==
  <<"<">> \o name \o <<">">> \o content \o <<"<", "/">> \o name \o <<">">>

\* <img src="url">
ImgTag(url) == <<"<", "i", "m", "g", " ", "s", "r", "c", "=", "\"">> \o url \o <<"\"", ">">>

\* <media:thumbnail url="url"/>
ThumbnailTag(url) == <<"<", "m", "e", "d", "i", "a", ":", "t", "h", "u", "m", "b", "n", "a", "i", "l", " ", "u", "r", "l", "=", "\"">> \o url \o <<"\"", "/", ">">>

\* <![CDATA[payload]]>
CData(payload) == <<"<", "!", "[", "C", "D", "A", "T", "A", "[">> \o payload \o <<"]", "]", ">">>

\* The inline image tags of a content, in order.
ImgTags(urls) == Concat([k \in 1..Len(urls) |-> ImgTag(urls[k])])

\* The largest number of <item> elements of a document.
MaxItems == 1

\* What an item's content:encoded, content or description tag may hold:
\* inline images followed by text, as markup or in a CDATA section; markup
\* that is entity-escaped; or only blank space.
Markup(imgs, text) == [form |-> "markup", imgs |-> imgs, text |-> text]
InCData(imgs, text) == [form |-> "cdata", imgs |-> imgs, text |-> text]
Escaped(text) == [form |-> "escaped", imgs |-> <<>>, text |-> text]
Blank == [form |-> "blank", imgs |-> <<>>, text |-> <<" ">>]

Url_e == <<"e">>
Url_c == <<"c">>
Url_d == <<"d">>
Url_pixel == <<"1", "x", "1">>
Url_small == <<"5", "0", "x", "5", "0">>

EncodedChoices == {Undefined, Some(Blank), Some(InCData(<<Url_e>>, <<"E">>))}
ContentChoices == {Undefined, Some(Blank), Some(Markup(<<Url_small, Url_c>>, <<"C">>))}
DescriptionChoices ==
  {Undefined, Some(Escaped(<<"H", "i">>)), Some(Markup(<<Url_d, Url_pixel>>, <<"D">>))}
ThumbnailChoices == {Undefined, Some(Url_pixel), Some(Url_e)}

\* The title and link of the item of the documented example, or none.
ItemTitle == <<"T", "1">>
ItemLink == <<"h", "t", "t", "p", ":", "/", "/", "x">>
TitleAndLink == Element(N_title, ItemTitle) \o Element(N_link, ItemLink)

\* <item><title>T1</title><link>http://x</link>
\*   <description>&lt;p&gt;Hi&lt;/p&gt;</description></item>
ExampleShape ==
  [head |-> TitleAndLink, thumbnail |-> Undefined, encoded |-> Undefined,
   content |-> Undefined, description |-> Some(Escaped(<<"H", "i">>))]

ItemShapes ==
  [head : {<<>>}, thumbnail : ThumbnailChoices, encoded : EncodedChoices,
   content : ContentChoices, description : DescriptionChoices]
  \cup {ExampleShape}

\* The text inside the tag of a content c.
TagText(c) ==
  CASE c.form = "markup" -> ImgTags(c.imgs) \o c.text
    [] c.form = "cdata" -> <<"\n">> \o CData(ImgTags(c.imgs) \o c.text) \o <<"\n">>
    [] c.form = "escaped" -> <<"&", "l", "t", ";", "p", "&", "g", "t", ";">> \o c.text \o <<"&", "l", "t", ";", "/", "p", "&", "g", "t", ";">>
    [] c.form = "blank" -> c.text

\* What the tag of a content c holds for a reader of XML: the payload of the
\* CDATA section, or the text, without the blank space around it.
TagValue(c) ==
  CASE c.form = "markup" -> ImgTags(c.imgs) \o c.text
    [] c.form = "cdata" -> ImgTags(c.imgs) \o c.text
    [] c.form = "escaped" -> <<"&", "l", "t", ";", "p", "&", "g", "t", ";">> \o c.text \o <<"&", "l", "t", ";", "/", "p", "&", "g", "t", ";">>
    [] c.form = "blank" -> <<>>

OptElement(name, c) == IF c = Undefined THEN <<>> ELSE Element(name, TagText(c[1]))

FeedTitle == <<"F", "e", "e", "d">>

ItemXml(shape) ==
  Element(N_item,
    shape.head
    \o (IF shape.thumbnail = Undefined THEN <<>> ELSE ThumbnailTag(shape.thumbnail[1]))
    \o OptElement(N_contentEncoded, shape.encoded)
    \o OptElement(N_content, shape.content)
    \o OptElement(N_description, shape.description))

\* <rss><channel><title>Feed</title> items </channel></rss>
DocumentXml(shapes) ==
  <<"<", "r", "s", "s", ">", "<", "c", "h", "a", "n", "n", "e", "l", ">">> \o Element(N_title, FeedTitle)
  \o Concat([k \in 1..Len(shapes) |-> ItemXml(shapes[k])]) \o <<"<", "/", "c", "h", "a", "n", "n", "e", "l", ">", "<", "/", "r", "s", "s", ">">>

(***************************************************************************)
(* The fetch wrapper's state when no fetch is in progress.                 *)
(***************************************************************************)
Pending == [state |-> "pending"]
Fulfilled(v) == [state |-> "fulfilled", value |-> v]
Rejected(e) == [state |-> "rejected", reason |-> e]

NoCalls == [text |-> 0, parse |-> 0, log |-> 0]

NoFetch ==
  /\ response = Undefined
  /\ inner = Pending
  /\ outer = Pending
  /\ calls = NoCalls

fetchVars == <<response, inner, outer, calls>>

(***************************************************************************)
(* SpecParse: parseRssXml on the documents of at most MaxItems items.      *)
(***************************************************************************)
InitParse ==
  /\ pc = "call"
  /\ parts \in SeqsUpTo(ItemShapes, MaxItems)
  /\ input = DocumentXml(parts)
  /\ output = Undefined
  /\ NoFetch

CallParseRssXml ==
  /\ pc = "call"
  /\ output' = Some(parseRssXml(input))
  /\ pc' = "done"
  /\ UNCHANGED <<input, parts, fetchVars>>

NextParse == CallParseRssXml

SpecParse == InitParse /\ [][NextParse]_vars

\* The feed returned, and the item of the feed that came from parts[k].
Feed == output[1]
Returned == pc = "done"

\* The item of the feed returned that was read from parts[k].
Item(k) == Feed.items[k]

\* What a tag holds, an absent tag holding nothing.
ValueOf(c) == IF c = Undefined THEN <<>> ELSE TagValue(c[1])

\* The part of an item that holds its richest content: the first of
\* content:encoded, content and description that is not empty.
RichestPart(shape) ==
  IF ValueOf(shape.encoded) # <<>> THEN shape.encoded
  ELSE IF ValueOf(shape.content) # <<>> THEN shape.content
  ELSE shape.description

\* The URLs of the inline images of the richest content, in document order.
RichestImgs(shape) ==
  IF RichestPart(shape) = Undefined THEN <<>> ELSE RichestPart(shape)[1].imgs

HasTagChar(s) == \E i \in 1..Len(s) : s[i] \in {"<", ">"}

\* C1: the documented example document parses to a feed titled "Feed" with
\* exactly one item, of title "T1", link "http://x" and description "Hi"; and
\* every item description whose markup is entity-escaped comes back as the
\* bare text, with no tag character left in it.
C1_EscapedDescriptionIsBareText ==
  Returned =>
    /\ parts = <<ExampleShape>> =>
         /\ Feed.title = FeedTitle
         /\ Len(Feed.items) = 1
         /\ Item(1).title = ItemTitle
         /\ Item(1).link = ItemLink
         /\ Item(1).description = <<"H", "i">>
    /\ \A k \in 1..Len(parts) :
         (parts[k].description # Undefined /\ parts[k].description[1].form = "escaped") =>
           /\ k <= Len(Feed.items)
           /\ Item(k).description = parts[k].description[1].text
           /\ ~HasTagChar(Item(k).description)

\* C4: in every item of a feed returned, images, when present, is not empty;
\* featuredImage is present exactly when images is; and featuredImage, when
\* present, is the first of images.
C4_ImagesAndFeaturedImage ==
  Returned =>
    \A k \in 1..Len(Feed.items) :
      /\ Item(k).images # Undefined => Len(Item(k).images[1]) > 0
      /\ (Item(k).featuredImage # Undefined) <=> (Item(k).images # Undefined)
      /\ Item(k).featuredImage # Undefined =>
           Item(k).featuredImage[1] = Item(k).images[1][1]

C4_Witness ==
  /\ Returned
  /\ \E k \in 1..Len(Feed.items) :
       /\ Item(k).images # Undefined /\ Len(Item(k).images[1]) >= 2
       /\ Item(k).featuredImage = Some(Item(k).images[1][1])

\* C5: an item with a media:thumbnail URL T whose richest content yields the
\* accepted inline image URLs A, B, ... in document order has exactly the
\* images T, A, B, ...: T first and unfiltered, nothing removed as a duplicate.
C5_ThumbnailThenInlineImages ==
  Returned =>
    \A k \in 1..Len(parts) :
      parts[k].thumbnail # Undefined =>
        /\ k <= Len(Feed.items)
        /\ Item(k).images =
             Some(<<parts[k].thumbnail[1]>> \o SelectSeq(RichestImgs(parts[k]), AcceptImage))

\* The images of an item without its thumbnail.
InlineImages(k) ==
  IF Item(k).images = Undefined THEN <<>>
  ELSE IF parts[k].thumbnail # Undefined THEN Tail(Item(k).images[1])
  ELSE Item(k).images[1]

\* C6: cleanContent is cleanHtmlContent of the first non-empty of the item's
\* content:encoded, content and description, and the inline images come from
\* it too, while description is always cleanHtmlContent of the raw
\* description; so without content:encoded and content, cleanContent equals
\* description.
C6_RichestContentByPriority ==
  Returned =>
    \A k \in 1..Len(parts) :
      /\ k <= Len(Feed.items)
      /\ Item(k).cleanContent = cleanHtmlContent(ValueOf(RichestPart(parts[k])))
      /\ Item(k).description = cleanHtmlContent(ValueOf(parts[k].description))
      /\ InlineImages(k) = SelectSeq(RichestImgs(parts[k]), AcceptImage)
      /\ (parts[k].encoded = Undefined /\ parts[k].content = Undefined) =>
           Item(k).cleanContent = Item(k).description

\* ---------------------------------------------------------------------
\* cleanHtmlContent called on an HTML text made of at most MaxFrags fragments.

MaxFrags == 3

Str_amp == <<"&", "a", "m", "p", ";">>
Str_lt == <<"&", "l", "t", ";">>
Str_gt == <<"&", "g", "t", ";">>
Str_ltBody == <<"l", "t", ";">>
Str_quotBody == <<"q", "u", "o", "t", ";">>
Str_videoOpen == <<"<", "v", "i", "d", "e", "o", ">">>
Str_videoClose == <<"<", "/", "v", "i", "d", "e", "o", ">">>
Str_span == <<"<", "x", ">">>
Str_para == <<"<", "p", ">">>
Str_twoLines == <<"f", "\n", "g">>
Str_newline == <<"\n">>
Str_space == <<" ">>
Str_open == <<"<">>
Str_close == <<">">>

\* The bodies of the entities an escaped ampersand is put before.
EntityBodies == {Str_ltBody, Str_quotBody}

\* What stands between the tags of a media element.
MediaContents == {Str_twoLines, Str_para, Str_newline, Str_space}

CleanFragments ==
  {Str_amp, Str_lt, Str_gt, Str_span, Str_open, Str_close, Str_videoOpen, Str_videoClose}
    \cup EntityBodies \cup MediaContents

InitClean ==
  /\ pc = "call"
  /\ parts \in SeqsUpTo(CleanFragments, MaxFrags)
  /\ input = Concat(parts)
  /\ output = Undefined
  /\ NoFetch

CallCleanHtmlContent ==
  /\ pc = "call"
  /\ output' = Some(cleanHtmlContent(input))
  /\ pc' = "done"
  /\ UNCHANGED <<input, parts, fetchVars>>

NextClean == CallCleanHtmlContent

SpecClean == InitClean /\ [][NextClean]_vars

HasChar(s, c) == \E i \in 1..Len(s) : s[i] = c

\* s has t as a substring.
HasText(s, t) == \E i \in 1..(Len(s) - Len(t) + 1) : SubSeq(s, i, i + Len(t) - 1) = t

\* C2: an escaped ampersand followed by an entity body decodes to the
\* literal text of the entity (&amp;lt; to &lt;, &amp;quot; to &quot;), and
\* never to the character the entity stands for.
C2_NoDoubleDecoding ==
  Returned =>
    \A body \in EntityBodies :
      parts = <<Str_amp, body>> => output[1] = <<"&">> \o body

C10_MediaElementRemovedWhole ==
  Returned =>
    \A c \in MediaContents :
      parts = <<Str_videoOpen, c, Str_videoClose>> => output[1] = <<>>

\* ---------------------------------------------------------------------
\* extractImages called on an <img> tag whose src is made of at most
\* MaxUrlFrags fragments.

MaxUrlFrags == 3

Str_feedburner == <<"f", "e", "e", "d", "b", "u", "r", "n", "e", "r">>
Str_pixel == <<"p", "i", "x", "e", "l">>
Str_1x1 == <<"1", "x", "1">>
Str_tracking == <<"t", "r", "a", "c", "k", "i", "n", "g">>
Str_50x50 == <<"5", "0", "x", "5", "0">>
Str_640x480 == <<"6", "4", "0", "x", "4", "8", "0">>
Str_100x2 == <<"1", "0", "0", "x", "2">>
Str_101x2 == <<"1", "0", "1", "x", "2">>
Str_thumb == <<"t", "h", "u", "m", "b", "-">>
Str_jpg == <<".", "j", "p", "g">>

Blocklist == {Str_feedburner, Str_pixel, Str_1x1, Str_tracking}

UrlFragments ==
  Blocklist \cup {Str_50x50, Str_640x480, Str_100x2, Str_101x2, Str_thumb, Str_jpg,
                  <<"x">>, <<"1">>, <<"0">>}

\* The URL of the image.
Url == Concat(parts)

InitImages ==
  /\ pc = "call"
  /\ parts \in SeqsUpTo(UrlFragments, MaxUrlFrags)
  /\ input = ImgTag(Concat(parts))
  /\ output = Undefined
  /\ NoFetch

CallExtractImages ==
  /\ pc = "call"
  /\ output' = Some(extractImages(input))
  /\ pc' = "done"
  /\ UNCHANGED <<input, parts, fetchVars>>

NextImages == CallExtractImages

SpecImages == InitImages /\ [][NextImages]_vars

\* The positions of u where a digits-x-digits pattern begins.
PatternStarts(u) ==
  {i \in 1..Len(u) :
     \E j \in i..(Len(u) - 2) :
       /\ \A k \in i..j : u[k] \in Digits
       /\ u[j + 1] = "x"
       /\ u[j + 2] \in Digits}

\* The number the digits of u from position i on write, up to the `x'.
RECURSIVE WidthFrom(_, _, _)
WidthFrom(u, i, n) ==
  IF u[i] = "x" THEN n ELSE WidthFrom(u, i + 1, 10 * n + DigitValue[u[i]])

\* The width of the first digits-x-digits pattern of u.
PatternWidth(u) == WidthFrom(u, Min(PatternStarts(u)), 0)

HasBlocklisted(u) == \E b \in Blocklist : HasText(u, b)

\* C3: the URL of an <img> is in the result if and only if it holds nothing
\* of the blocklist and no digits-x-digits pattern, or it holds such a
\* pattern and the width of it is more than 100.
C3_AcceptCondition ==
  (Returned /\ Url # <<>>) =>
    /\ output[1] \in {<<>>, <<Url>>}
    /\ output[1] = <<Url>> <=>
         \/ ~HasBlocklisted(Url) /\ PatternStarts(Url) = {}
         \/ PatternStarts(Url) # {} /\ PatternWidth(Url) > 100

C3_Witness ==
  /\ Returned
  /\ parts = <<Str_tracking, Str_101x2, Str_jpg>>
  /\ output[1] = <<Url>>

\* ---------------------------------------------------------------------
\* getTextBetweenTags called for the title of a fragment whose <title> wraps
\* a CDATA section of at most MaxPayloadFrags fragments.

MaxPayloadFrags == 3

Str_titleClose == <<"<", "/", "t", "i", "t", "l", "e", ">">>
Str_bold == <<"<", "b", ">">>

PayloadFragments == {<<"a">>, Str_space, Str_newline, Str_bold, Str_titleClose}

\* What stands in the tag before and after the CDATA section.
Surroundings == {<<>>, Str_space, Str_newline, <<"t">>}

InitTag ==
  /\ pc = "call"
  /\ parts \in [pre : Surroundings, payload : SeqsUpTo(PayloadFragments, MaxPayloadFrags),
                post : Surroundings]
  /\ input = Element(N_title, parts.pre \o CData(Concat(parts.payload)) \o parts.post)
  /\ output = Undefined
  /\ NoFetch

CallGetTextBetweenTags ==
  /\ pc = "call"
  /\ output' = Some(getTextBetweenTags(input, N_title))
  /\ pc' = "done"
  /\ UNCHANGED <<input, parts, fetchVars>>

NextTag == CallGetTextBetweenTags

SpecTag == InitTag /\ [][NextTag]_vars

\* C7: when the tag wraps a CDATA section, getTextBetweenTags returns the
\* trimmed payload of the section, whatever surrounds the section inside the
\* tag and whatever the payload holds, a closing tag of the same name included.
C7_CDataPayloadReturned ==
  Returned => output[1] = Trim(Concat(parts.payload))

\* ---------------------------------------------------------------------
\* fetchRssData called for a URL whose server, when it answers, answers with
\* a status of Statuses and the document `input' as its body.

Statuses == {200, 204, 304, 404, 500}

\* Response.ok
Ok(status) == status \in 200..299

\* new Error(`HTTP ${response.status}: Failed to fetch RSS feed`)
HttpError(status) == [message |-> <<"HTTP", status, "Failed to fetch RSS feed">>]

\* What fetch rejects with, and what response.text() rejects with.
NetworkError == [message |-> <<"fetch failed">>]
ReadError == [message |-> <<"body read failed">>]

\* The items of the documents served.
ServedShapes ==
  {sh \in ItemShapes :
     /\ sh.encoded = Undefined /\ sh.thumbnail = Undefined
     /\ sh.content # Some(Blank)}

Init ==
  /\ pc = "start"
  /\ parts \in SeqsUpTo(ServedShapes, MaxItems)
  /\ input = DocumentXml(parts)
  /\ output = Undefined
  /\ NoFetch

\* fetchRssData calls fetchAndParseRss, which calls fetch and awaits it.
CallFetchRssData ==
  /\ pc = "start"
  /\ pc' = "awaitFetch"
  /\ UNCHANGED <<input, parts, output, fetchVars>>

\* fetch resolves, and fetchAndParseRss goes on reading the body whatever
\* the status is.
FetchResolves_NoStatusCheck ==
  /\ pc = "awaitFetch"
  /\ \E status \in Statuses :
       /\ response' = Some([status |-> status, ok |-> Ok(status)])
       /\ calls' = [calls EXCEPT !.text = @ + 1]
       /\ pc' = "awaitText"
       /\ UNCHANGED inner
  /\ UNCHANGED <<input, parts, output, outer>>

\* fetch resolves: fetchAndParseRss throws when the response is not ok, and
\* calls response.text() and awaits it when it is (lines 236-242).
FetchResolves ==
  /\ pc = "awaitFetch"
  /\ \E status \in Statuses :
       /\ response' = Some([status |-> status, ok |-> Ok(status)])
       /\ IF ~Ok(status)
          THEN /\ inner' = Rejected(HttpError(status))
               /\ pc' = "catch"
               /\ UNCHANGED calls
          ELSE /\ calls' = [calls EXCEPT !.text = @ + 1]
               /\ pc' = "awaitText"
               /\ UNCHANGED inner
  /\ UNCHANGED <<input, parts, output, outer>>

\* fetch rejects: the rejection goes through fetchAndParseRss.
FetchRejects ==
  /\ pc = "awaitFetch"
  /\ inner' = Rejected(NetworkError)
  /\ pc' = "catch"
  /\ UNCHANGED <<input, parts, output, response, outer, calls>>

\* response.text() resolves with the body: parseRssXml is called on it and
\* fetchAndParseRss returns the feed (lines 242-246).
TextResolves ==
  /\ pc = "awaitText"
  /\ calls' = [calls EXCEPT !.parse = @ + 1]
  /\ inner' = Fulfilled(parseRssXml(input))
  /\ pc' = "return"
  /\ UNCHANGED <<input, parts, output, response, outer>>

\* response.text() rejects: the rejection goes through fetchAndParseRss.
TextRejects ==
  /\ pc = "awaitText"
  /\ inner' = Rejected(ReadError)
  /\ pc' = "catch"
  /\ UNCHANGED <<input, parts, output, response, outer, calls>>

\* The catch of fetchRssData: console.error, then `throw error'.
Catch ==
  /\ pc = "catch"
  /\ calls' = [calls EXCEPT !.log = @ + 1]
  /\ outer' = Rejected(inner.reason)
  /\ pc' = "done"
  /\ UNCHANGED <<input, parts, output, response, inner>>

\* fetchRssData returns the feed.
Return ==
  /\ pc = "return"
  /\ outer' = Fulfilled(inner.value)
  /\ output' = Some(inner.value)
  /\ pc' = "done"
  /\ UNCHANGED <<input, parts, response, inner, calls>>

Next ==
  \/ CallFetchRssData
  \/ FetchResolves
  \/ FetchRejects
  \/ TextResolves
  \/ TextRejects
  \/ Catch
  \/ Return

Spec == Init /\ [][Next]_vars

\* The response has arrived and its status is not a success code.
NotOkResponse == response # Undefined /\ ~(response[1].status \in 200..299)

\* C9: once a response with a status that is not a success code has arrived,
\* fetchAndParseRss has thrown an error that carries the status, the body is
\* never read, parseRssXml is never called and no feed is returned;
\* parseRssXml is only called after response.text() has given the body, and
\* fetchRssData, when it ends after an error, has rejected with that error.
C9_NotOkStatusIsAnError ==
  /\ NotOkResponse =>
       /\ inner = Rejected(HttpError(response[1].status))
       /\ calls.text = 0 /\ calls.parse = 0
       /\ outer.state # "fulfilled" /\ output = Undefined
       /\ pc \in {"catch", "done"}
       /\ pc = "done" => outer = Rejected(HttpError(response[1].status))
  /\ calls.parse > 0 =>
       /\ calls.text = 1 /\ calls.parse = 1
       /\ response # Undefined /\ response[1].ok
       /\ inner = Fulfilled(parseRssXml(input))
  /\ (pc = "done" /\ inner.state = "rejected") =>
       /\ outer = Rejected(inner.reason)
       /\ calls.log = 1

C9_Witness ==
  /\ pc = "done"
  /\ response = Some([status |-> 404, ok |-> FALSE])
  /\ outer = Rejected(HttpError(404))
  /\ calls = [text |-> 0, parse |-> 0, log |-> 1]

====
